---- MODULE Spec2Model ----
(***************************************************************************)
(* Model of S3Saver (src/s3_saver.py): a file saver that stores, deletes,  *)
(* finds and downloads files either on the local filesystem or in an S3    *)
(* bucket, chosen from its (mutable) configuration at every call.          *)
(*                                                                         *)
(* Python strings that are paths, filenames or keys are sequences of       *)
(* one-character strings; byte contents are sequences of integers.         *)
(***************************************************************************)
EXTENDS Integers, Sequences, FiniteSets, TLC

VARIABLES cfg,      \* the attributes of the S3Saver instance
          built,    \* "no" before __init__, "yes" after it, "failed" if it raised
          fs,       \* local filesystem: path -> content of every regular file
          dirs,     \* local filesystem: the directories that exist (besides /)
          s3,       \* the bucket: key -> content of every object
          obj,      \* the caller's record that save() annotates
          last,     \* the latest call: its arguments, outcome and I/O trace
          run,      \* names of the latest successful calls in a row on one filename
          calls     \* number of steps taken after construction

vars == <<cfg, built, fs, dirs, s3, obj, last, run, calls>>

----------------------------------------------------------------------------
(* Bounds of the model.                                                    *)

MaxCalls == 2      \* steps after construction in Spec
MaxSeq == 3        \* steps in SpecSeq
MaxLen == 3        \* length of the strings drawn in SpecPath
SrcLen == 2        \* length of the byte source handed to save()

----------------------------------------------------------------------------
(* Python values.                                                          *)

None == "None"

\* truth value of an optional str attribute (None and '' are falsy)
Truthy(x) == x # None /\ x # ""

\* an optional path attribute: None, a str, or (base_path only) a callable
NoPath == [kind |-> "none", value |-> <<>>]
Str(s) == [kind |-> "str", value |-> s]
Callable(s) == [kind |-> "callable", value |-> s]

\* truth value of an optional path attribute (a function object is truthy)
TruthyPath(p) == p.kind = "callable" \/ (p.kind = "str" /\ p.value # <<>>)

----------------------------------------------------------------------------
(* String functions.                                                       *)

StartsWith(s, p) == Len(p) <= Len(s) /\ SubSeq(s, 1, Len(p)) = p

Drop(s, n) == SubSeq(s, n + 1, Len(s))

\* os.path.join(a, b) on POSIX
Join(a, b) ==
    IF StartsWith(b, <<"/">>) THEN b
    ELSE IF a = <<>> \/ a[Len(a)] = "/" THEN a \o b
    ELSE a \o <<"/">> \o b

\* os.path.dirname(p) on POSIX
RECURSIVE RStripSlash(_)
RStripSlash(s) ==
    IF s = <<>> \/ s[Len(s)] # "/" THEN s ELSE RStripSlash(SubSeq(s, 1, Len(s) - 1))

Dirname(p) ==
    LET idx == {i \in 1..Len(p) : p[i] = "/"}
        i == IF idx = {} THEN 0 ELSE CHOOSE k \in idx : \A j \in idx : j <= k
        head == SubSeq(p, 1, i)
    IN IF head # <<>> /\ \E k \in 1..Len(head) : head[k] # "/"
       THEN RStripSlash(head) ELSE head

\* str.replace(old, '')
RECURSIVE Replace(_, _)
Replace(s, old) ==
    IF s = <<>> \/ old = <<>> THEN s
    ELSE IF StartsWith(s, old) THEN Replace(Drop(s, Len(old)), old)
    ELSE <<Head(s)>> \o Replace(Tail(s), old)

\* re.sub('^\/', '', s)
SubLeadingSlash(s) == IF StartsWith(s, <<"/">>) THEN Tail(s) ELSE s

----------------------------------------------------------------------------
(* Results of the helper methods: exc is "" when the call returned.        *)

Ok(v) == [exc |-> "", val |-> None, ret |-> v]
Raise(e, v) == [exc |-> e, val |-> v, ret |-> <<>>]

\* S3Saver._get_path
_get_path(c, filename) ==
    IF ~TruthyPath(c.base_path) THEN Raise("ValueError", "base_path")
    ELSE Ok(Join(c.base_path.value, filename))

\* S3Saver._get_s3_path
_get_s3_path(c, filename) ==
    IF ~TruthyPath(c.static_root_parent) THEN Raise("ValueError", "static_root_parent")
    ELSE LET p == _get_path(c, filename)
         IN IF p.exc # "" THEN p
            ELSE Ok(SubLeadingSlash(Replace(p.ret, c.static_root_parent.value)))


----------------------------------------------------------------------------
(* The world a call acts on: w = [fs, dirs, s3, obj].                      *)
(* The outcome of a call: the exception (exc, "" if none) with the value   *)
(* its message carries, the I/O performed in order, the world it leaves,   *)
(* the value returned, the listing found, the backend branch taken.        *)

Out(e, v, io, w, ret, found, backend) ==
    [exc |-> e, val |-> v, io |-> io, w |-> w, ret |-> ret, found |-> found,
     backend |-> backend]

Exists(w, p) ==
    \/ p \in DOMAIN w.fs
    \/ p \in w.dirs
    \/ (p # <<>> /\ \A i \in 1..Len(p) : p[i] = "/")

\* the directories os.makedirs(d) makes sure exist
Ancestors(d) ==
    {SubSeq(d, 1, i) : i \in {k \in 1..Len(d) :
        /\ d[k] # "/"
        /\ (k = Len(d) \/ d[k + 1] = "/")}}

WriteFile(f, p, data) == [q \in (DOMAIN f) \cup {p} |-> IF q = p THEN data ELSE f[q]]
RemoveFile(f, p) == [q \in (DOMAIN f) \ {p} |-> f[q]]

\* variant: the selection looks at the storage type alone
UseLocal_type_only(c) == ~Truthy(c.storage_type)

\* the backend selection every public method starts with
UseLocal(c) == ~(Truthy(c.storage_type) /\ Truthy(c.bucket_name))

\* the I/O steps that talk to the remote backend
NetworkIO == {"connect", "get_bucket", "upload", "set_acl", "delete_key", "list",
              "get_contents"}

----------------------------------------------------------------------------
(* delete                                                                  *)

\* variant: os.remove without the os.path.exists test
_delete_local_unguarded(c, w, name, isKey, fault) ==
    IF isKey THEN Out("TypeError", None, <<>>, w, <<>>, {}, "local")
    ELSE IF fault = "remove" \/ name \notin DOMAIN w.fs
         THEN Out("OSError", None, <<"remove">>, w, <<>>, {}, "local")
    ELSE Out("", None, <<"remove">>,
             [w EXCEPT !.fs = RemoveFile(w.fs, name)], <<>>, {}, "local")

\* S3Saver._delete_local
_delete_local(c, w, name, isKey, fault) ==
    IF isKey THEN Out("TypeError", None, <<>>, w, <<>>, {}, "local")
    ELSE IF ~Exists(w, name) THEN Out("", None, <<"exists">>, w, <<>>, {}, "local")
    ELSE IF fault = "remove" \/ name \notin DOMAIN w.fs
         THEN Out("OSError", None, <<"exists", "remove">>, w, <<>>, {}, "local")
    ELSE Out("", None, <<"exists", "remove">>,
             [w EXCEPT !.fs = RemoveFile(w.fs, name)], <<>>, {}, "local")

\* S3Saver._delete_s3
_delete_s3(c, w, name, isKey, fault) ==
    IF fault = "connect"
    THEN Out("S3Error", None, <<"connect">>, w, <<>>, {}, "remote")
    ELSE IF fault = "get_bucket"
    THEN Out("S3Error", None, <<"connect", "get_bucket">>, w, <<>>, {}, "remote")
    ELSE LET filename == IF isKey THEN <<"/">> \o name ELSE name
             path == _get_s3_path(c, filename)
             io == <<"connect", "get_bucket">>
         IN IF path.exc # ""
            THEN Out(path.exc, path.val, io, w, <<>>, {}, "remote")
            ELSE IF fault = "delete_key"
            THEN Out("S3Error", None, Append(io, "delete_key"), w, <<>>, {}, "remote")
            ELSE IF fault = "delete_key_response"
            THEN Out("", None, Append(io, "delete_key"), w, <<>>, {}, "remote")
            ELSE Out("", None, Append(io, "delete_key"),
                     [w EXCEPT !.s3 = RemoveFile(w.s3, path.ret)], <<>>, {}, "remote")

\* S3Saver.delete
delete(c, w, name, isKey, fault) ==
    IF UseLocal(c) THEN _delete_local(c, w, name, isKey, fault)
    ELSE IF c.storage_type # "s3"
         THEN Out("NameError", None, <<>>, w, <<>>, {}, "remote")
         ELSE _delete_s3(c, w, name, isKey, fault)

----------------------------------------------------------------------------
(* save                                                                    *)

ChunkSize == 1048576

\* temp_file.read(n) at position pos
Read(data, pos, n) ==
    SubSeq(data, pos + 1, IF pos + n < Len(data) THEN pos + n ELSE Len(data))

\* the copy loop of _save_local, started at position pos
RECURSIVE CopyChunks(_, _)
CopyChunks(data, pos) ==
    LET t == Read(data, pos, ChunkSize)
    IN IF t = <<>> THEN <<>> ELSE t \o CopyChunks(data, pos + Len(t))

\* S3Saver._save_local
_save_local(c, w, src, filename, fault) ==
    LET p == _get_path(c, filename)
    IN IF p.exc # "" THEN Out(p.exc, p.val, <<>>, w, <<>>, {}, "local")
       ELSE
       LET path == p.ret
           d == Dirname(path)
           mk == ~Exists(w, d)
           io1 == IF mk THEN <<"exists", "makedirs">> ELSE <<"exists">>
           w1 == IF mk THEN [w EXCEPT !.dirs = w.dirs \cup Ancestors(d)] ELSE w
           w2 == [w1 EXCEPT !.fs = WriteFile(w1.fs, path, <<>>)]
           w3 == [w1 EXCEPT !.fs = WriteFile(w1.fs, path, CopyChunks(src.data, 0))]
           w4 == IF Truthy(c.filesize_field)
                 THEN [w3 EXCEPT !.obj.filesize = Len(w3.fs[path])] ELSE w3
           io4 == IF Truthy(c.filesize_field)
                  THEN io1 \o <<"open", "write", "getsize">>
                  ELSE io1 \o <<"open", "write">>
       IN IF mk /\ (fault = "makedirs" \/ d = <<>>)
          THEN Out("OSError", None, io1, w, <<>>, {}, "local")
          ELSE IF fault = "open" \/ path \in w1.dirs
          THEN Out("OSError", None, Append(io1, "open"), w1, <<>>, {}, "local")
          ELSE IF fault = "write"
          THEN Out("OSError", None, io1 \o <<"open", "write">>, w2, <<>>, {}, "local")
          ELSE Out("", None, io4, w4, filename, {}, "local")

\* variant: the filesize field is set right after the upload, before set_acl
_save_s3_size_first(c, w, src, filename, fault) ==
    IF fault = "connect"
    THEN Out("S3Error", None, <<"connect">>, w, <<>>, {}, "remote")
    ELSE IF fault = "get_bucket"
    THEN Out("S3Error", None, <<"connect", "get_bucket">>, w, <<>>, {}, "remote")
    ELSE LET path == _get_s3_path(c, filename)
             io == <<"connect", "get_bucket">>
             body == Drop(src.data, src.pos)
             w1 == [w EXCEPT !.s3 = WriteFile(w.s3, path.ret, body)]
             w2 == IF Truthy(c.filesize_field)
                   THEN [w1 EXCEPT !.obj.filesize = Len(body)] ELSE w1
         IN IF path.exc # ""
            THEN Out(path.exc, path.val, io, w, <<>>, {}, "remote")
            ELSE IF fault = "upload"
            THEN Out("S3Error", None, Append(io, "upload"), w, <<>>, {}, "remote")
            ELSE IF fault = "set_acl"
            THEN Out("S3Error", None, io \o <<"upload", "set_acl">>, w2, <<>>, {}, "remote")
            ELSE Out("", None, io \o <<"upload", "set_acl">>, w2, filename, {}, "remote")

\* S3Saver._save_s3
_save_s3(c, w, src, filename, fault) ==
    IF fault = "connect"
    THEN Out("S3Error", None, <<"connect">>, w, <<>>, {}, "remote")
    ELSE IF fault = "get_bucket"
    THEN Out("S3Error", None, <<"connect", "get_bucket">>, w, <<>>, {}, "remote")
    ELSE LET path == _get_s3_path(c, filename)
             io == <<"connect", "get_bucket">>
             body == Drop(src.data, src.pos)
             w1 == [w EXCEPT !.s3 = WriteFile(w.s3, path.ret, body)]
             w2 == IF Truthy(c.filesize_field)
                   THEN [w1 EXCEPT !.obj.filesize = Len(body)] ELSE w1
         IN IF path.exc # ""
            THEN Out(path.exc, path.val, io, w, <<>>, {}, "remote")
            ELSE IF fault = "upload"
            THEN Out("S3Error", None, Append(io, "upload"), w, <<>>, {}, "remote")
            ELSE IF fault = "set_acl"
            THEN Out("S3Error", None, io \o <<"upload", "set_acl">>, w1, <<>>, {}, "remote")
            ELSE Out("", None, io \o <<"upload", "set_acl">>, w2, filename, {}, "remote")

\* the write-back at the end of S3Saver.save (lines 139-151)
WriteBack(c, o, ret) ==
    LET o1 == IF Truthy(c.field_name) THEN [o EXCEPT !.filename = ret] ELSE o
        o2 == IF Truthy(c.storage_type_field)
              THEN [o1 EXCEPT !.storage_type =
                        IF c.storage_type = "s3" THEN c.storage_type ELSE ""]
              ELSE o1
    IN IF Truthy(c.bucket_name_field)
       THEN [o2 EXCEPT !.bucket_name =
                 IF c.storage_type = "s3" THEN c.bucket_name ELSE ""]
       ELSE o2

\* S3Saver.save
save(c, w, src, filename, fault) ==
    LET r == IF UseLocal(c) THEN _save_local(c, w, src, filename, fault)
             ELSE IF c.storage_type # "s3"
                  THEN Out("ValueError", c.storage_type, <<>>, w, <<>>, {}, "remote")
                  ELSE _save_s3(c, w, src, filename, fault)
    IN IF r.exc # "" THEN r
       ELSE [r EXCEPT !.w.obj = WriteBack(c, r.w.obj, r.ret)]

----------------------------------------------------------------------------
(* find and download                                                       *)

\* S3Saver._find_by_path_local: glob(path + '*')
_find_by_path_local(c, w, path) ==
    Out("", None, <<"glob">>, w, <<>>,
        {e \in (DOMAIN w.fs) \cup w.dirs :
            /\ StartsWith(e, path)
            /\ Len(e) > 0
            /\ \A i \in (Len(path) + 1)..Len(e) : e[i] # "/"},
        "local")

\* S3Saver._find_by_path_s3: bucket.list(prefix)
_find_by_path_s3(c, w, path, fault) ==
    IF fault = "connect"
    THEN Out("S3Error", None, <<"connect">>, w, <<>>, {}, "remote")
    ELSE IF fault = "get_bucket"
    THEN Out("S3Error", None, <<"connect", "get_bucket">>, w, <<>>, {}, "remote")
    ELSE LET s3_path == _get_s3_path(c, path)
             io == <<"connect", "get_bucket">>
         IN IF s3_path.exc # ""
            THEN Out(s3_path.exc, s3_path.val, io, w, <<>>, {}, "remote")
            ELSE IF fault = "list"
            THEN Out("S3Error", None, Append(io, "list"), w, <<>>, {}, "remote")
            ELSE Out("", None, Append(io, "list"), w, <<>>,
                     {k \in DOMAIN w.s3 : StartsWith(k, s3_path.ret)}, "remote")

\* S3Saver.find_by_path
find_by_path(c, w, path, fault) ==
    IF UseLocal(c) THEN _find_by_path_local(c, w, path)
    ELSE IF c.storage_type # "s3"
         THEN Out("ValueError", c.storage_type, <<>>, w, <<>>, {}, "remote")
         ELSE _find_by_path_s3(c, w, path, fault)

\* S3Saver.find_by_filename
find_by_filename(c, w, filename, fault) ==
    LET path == _get_path(c, filename)
    IN IF path.exc # "" THEN Out(path.exc, path.val, <<>>, w, <<>>, {}, "")
       ELSE IF UseLocal(c) THEN _find_by_path_local(c, w, path.ret)
       ELSE IF c.storage_type # "s3"
            THEN Out("ValueError", c.storage_type, <<>>, w, <<>>, {}, "remote")
            ELSE _find_by_path_s3(c, w, path.ret, fault)

\* S3Saver._download_s3
_download_s3(c, w, name, isKey, fault) ==
    IF c.static_root_parent.kind = "none"
    THEN Out("TypeError", None, <<>>, w, <<>>, {}, "remote")
    ELSE IF ~isKey THEN Out("AttributeError", None, <<>>, w, <<>>, {}, "remote")
    ELSE
    LET file_path == Join(c.static_root_parent.value, name)
        d == Dirname(file_path)
        mk == ~Exists(w, d)
        io1 == IF mk THEN <<"exists", "makedirs">> ELSE <<"exists">>
        w1 == IF mk THEN [w EXCEPT !.dirs = w.dirs \cup Ancestors(d)] ELSE w
        w2 == [w1 EXCEPT !.fs = WriteFile(w1.fs, file_path, <<>>)]
        w3 == [w1 EXCEPT !.fs = WriteFile(w1.fs, file_path, w.s3[name])]
    IN IF mk /\ (fault = "makedirs" \/ d = <<>>)
       THEN Out("OSError", None, io1, w, <<>>, {}, "remote")
       ELSE IF fault = "open" \/ file_path \in w1.dirs
       THEN Out("OSError", None, Append(io1, "open"), w1, <<>>, {}, "remote")
       ELSE IF fault = "get_contents" \/ name \notin DOMAIN w.s3
       THEN Out("S3Error", None, io1 \o <<"open", "get_contents">>, w2, <<>>, {}, "remote")
       ELSE Out("", None, io1 \o <<"open", "get_contents", "write">>, w3, file_path, {},
                "remote")

\* variant: download picks its backend from the storage type alone
download_type_only(c, w, name, isKey, fault) ==
    IF ~Truthy(c.storage_type) THEN Out("", None, <<>>, w, name, {}, "local")
    ELSE IF c.storage_type # "s3"
         THEN Out("ValueError", c.storage_type, <<>>, w, <<>>, {}, "remote")
         ELSE _download_s3(c, w, name, isKey, fault)

\* S3Saver.download
download(c, w, name, isKey, fault) ==
    IF UseLocal(c) THEN Out("", None, <<>>, w, name, {}, "local")
    ELSE IF c.storage_type # "s3"
         THEN Out("ValueError", c.storage_type, <<>>, w, <<>>, {}, "remote")
         ELSE _download_s3(c, w, name, isKey, fault)

----------------------------------------------------------------------------
(* The inputs of the calls.                                                *)

BasePath == <<"/", "s", "/", "u">>
StaticRoot == <<"/", "s">>
BucketName == "b"

\* the filename argument of save, delete, find_by_path and find_by_filename:
\* a relative name, an absolute one under base_path, and one that extends another
Filenames == {<<"a">>, BasePath \o <<"/", "a">>}
SeqFilenames == Filenames \cup {<<"a", "b">>}

\* the names of the Key handles passed to delete and download
KeyNames == {<<"u", "/", "a">>}

\* the bytes of the source handed to save
Data == [i \in 1..SrcLen |-> i]

\* the failures the environment can inject at an I/O step of a call
Faults == {"connect", "get_bucket", "upload", "set_acl", "delete_key",
           "delete_key_response", "list", "get_contents", "makedirs", "open",
           "write", "remove"}

\* the constructor arguments drawn for __init__
Configs ==
    [storage_type : {None, "s3", "ftp"},
     bucket_name : {None, BucketName},
     base_path : {NoPath, Str(BasePath)},
     static_root_parent : {NoPath, Str(StaticRoot)},
     field_name : {None, "filename"},
     storage_type_field : {None, "storage_type"},
     bucket_name_field : {None, "bucket_name"},
     filesize_field : {None, "filesize"}]

\* the attributes before __init__ has run
NoConfig ==
    [storage_type |-> None, bucket_name |-> None, base_path |-> NoPath,
     static_root_parent |-> NoPath, field_name |-> None,
     storage_type_field |-> None, bucket_name_field |-> None,
     filesize_field |-> None]

\* a record none of whose attributes has been set ("?" and -1 stand for absent)
NoRecord ==
    [filename |-> <<"?">>, storage_type |-> "?", bucket_name |-> "?", filesize |-> -1]

World == [fs |-> fs, dirs |-> dirs, s3 |-> s3, obj |-> obj]

NoFiles == [p \in {} |-> <<>>]

Call(op, arg, isKey, src, fault, r) ==
    [op |-> op, arg |-> arg, isKey |-> isKey, data |-> src.data, pos |-> src.pos,
     fault |-> fault, backend |-> r.backend, exc |-> r.exc, val |-> r.val,
     io |-> r.io, ret |-> r.ret, found |-> r.found]

NoSrc == [data |-> <<>>, pos |-> 0]

NoOut == Out("", None, <<>>, [fs |-> NoFiles, dirs |-> {}, s3 |-> NoFiles, obj |-> NoRecord],
             <<>>, {}, "")

NoCall == Call("", <<>>, FALSE, NoSrc, "none", NoOut)

Range(s) == {s[i] : i \in 1..Len(s)}

\* a failure is injected only at a step the call gets to
Reaches(r0, fault) ==
    \/ fault = "none"
    \/ fault \in Range(r0.io)
    \/ fault = "delete_key_response" /\ "delete_key" \in Range(r0.io)

\* the latest successful calls in a row on one filename, at most three
Extend(op, arg, isKey, r) ==
    IF r.exc # "" THEN <<>>
    ELSE IF run # <<>> /\ last.arg = arg /\ last.isKey = isKey
         THEN (IF Len(run) = 3 THEN Tail(run) ELSE run) \o <<op>>
         ELSE <<op>>

\* what every call does to the state
Effect(op, arg, isKey, src, fault, r) ==
    /\ fs' = r.w.fs
    /\ dirs' = r.w.dirs
    /\ s3' = r.w.s3
    /\ obj' = r.w.obj
    /\ last' = Call(op, arg, isKey, src, fault, r)
    /\ run' = Extend(op, arg, isKey, r)
    /\ UNCHANGED <<cfg, built>>

----------------------------------------------------------------------------
(* The actions.                                                            *)

\* S3Saver.__init__
Construct(c) ==
    /\ built = "no"
    /\ IF Truthy(c.storage_type) /\ c.storage_type # "s3"
       THEN /\ built' = "failed"
            /\ last' = Call("__init__", <<>>, FALSE, NoSrc, "none",
                            [NoOut EXCEPT !.exc = "ValueError", !.val = c.storage_type])
            /\ UNCHANGED cfg
       ELSE /\ built' = "yes"
            /\ cfg' = c
            /\ last' = Call("__init__", <<>>, FALSE, NoSrc, "none", NoOut)
    /\ UNCHANGED <<fs, dirs, s3, obj, run, calls>>

\* assignment to the storage_type attribute of the instance
SetStorageType(v) ==
    /\ built = "yes"
    /\ cfg' = [cfg EXCEPT !.storage_type = v]
    /\ last' = [NoCall EXCEPT !.op = "setattr"]
    /\ run' = <<>>
    /\ UNCHANGED <<built, fs, dirs, s3, obj>>

\* assignment to the bucket_name attribute of the instance
SetBucketName(v) ==
    /\ built = "yes"
    /\ cfg' = [cfg EXCEPT !.bucket_name = v]
    /\ last' = [NoCall EXCEPT !.op = "setattr"]
    /\ run' = <<>>
    /\ UNCHANGED <<built, fs, dirs, s3, obj>>

Save(filename, pos, fault) ==
    LET src == [data |-> Data, pos |-> pos]
    IN /\ built = "yes"
       /\ Reaches(save(cfg, World, src, filename, "none"), fault)
       /\ Effect("save", filename, FALSE, src, fault,
                 save(cfg, World, src, filename, fault))

Delete(name, isKey, fault) ==
    /\ built = "yes"
    /\ Reaches(delete(cfg, World, name, isKey, "none"), fault)
    /\ Effect("delete", name, isKey, NoSrc, fault, delete(cfg, World, name, isKey, fault))

FindByPath(path, fault) ==
    /\ built = "yes"
    /\ Reaches(find_by_path(cfg, World, path, "none"), fault)
    /\ Effect("find_by_path", path, FALSE, NoSrc, fault,
              find_by_path(cfg, World, path, fault))

FindByFilename(filename, fault) ==
    /\ built = "yes"
    /\ Reaches(find_by_filename(cfg, World, filename, "none"), fault)
    /\ Effect("find_by_filename", filename, FALSE, NoSrc, fault,
              find_by_filename(cfg, World, filename, fault))

Download(name, isKey, fault) ==
    /\ built = "yes"
    /\ Reaches(download(cfg, World, name, isKey, "none"), fault)
    /\ Effect("download", name, isKey, NoSrc, fault,
              download(cfg, World, name, isKey, fault))

\* the arguments that are filenames and those that are Key handles
Args(names) == (names \X {FALSE}) \cup (KeyNames \X {TRUE})

\* one more step, while the bound allows it
Tick(max) == calls < max /\ calls' = calls + 1

Init ==
    /\ cfg = NoConfig
    /\ built = "no"
    /\ fs = NoFiles
    /\ dirs = {}
    /\ s3 = NoFiles
    /\ obj = NoRecord
    /\ last = NoCall
    /\ run = <<>>
    /\ calls = 0

Next ==
    \/ \E c \in Configs : Construct(c)
    \/ \E v \in {None, "s3", "ftp"} : Tick(MaxCalls) /\ SetStorageType(v)
    \/ \E v \in {None, BucketName} : Tick(MaxCalls) /\ SetBucketName(v)
    \/ \E f \in Filenames, pos \in 0..SrcLen, F \in Faults \cup {"none"} :
          Tick(MaxCalls) /\ Save(f, pos, F)
    \/ \E a \in Args(Filenames), F \in Faults \cup {"none"} :
          Tick(MaxCalls) /\ Delete(a[1], a[2], F)
    \/ \E f \in Filenames, F \in Faults \cup {"none"} :
          Tick(MaxCalls) /\ FindByPath(f, F)
    \/ \E f \in Filenames, F \in Faults \cup {"none"} :
          Tick(MaxCalls) /\ FindByFilename(f, F)
    \/ \E a \in Args(Filenames), F \in Faults \cup {"none"} :
          Tick(MaxCalls) /\ Download(a[1], a[2], F)

Spec == Init /\ [][Next]_vars

----------------------------------------------------------------------------
(* SpecSeq: sequences of calls on a valid configuration that is not        *)
(* changed, in an environment that injects no failure.                     *)

SeqConfigs ==
    [storage_type : {None, "s3"},
     bucket_name : {None, BucketName},
     base_path : {Str(BasePath)},
     static_root_parent : {Str(StaticRoot)},
     field_name : {"filename"},
     storage_type_field : {"storage_type"},
     bucket_name_field : {"bucket_name"},
     filesize_field : {"filesize"}]

InitSeq ==
    /\ cfg \in SeqConfigs
    /\ built = "yes"
    /\ fs = NoFiles
    /\ dirs = {}
    /\ s3 = NoFiles
    /\ obj = NoRecord
    /\ last = NoCall
    /\ run = <<>>
    /\ calls = 0

NextSeq ==
    \/ \E f \in SeqFilenames, pos \in 0..SrcLen : Tick(MaxSeq) /\ Save(f, pos, "none")
    \/ \E a \in Args(SeqFilenames) : Tick(MaxSeq) /\ Delete(a[1], a[2], "none")
    \/ \E f \in SeqFilenames : Tick(MaxSeq) /\ FindByPath(f, "none")
    \/ \E f \in SeqFilenames : Tick(MaxSeq) /\ FindByFilename(f, "none")
    \/ \E a \in Args(SeqFilenames) : Tick(MaxSeq) /\ Download(a[1], a[2], "none")

SpecSeq == InitSeq /\ [][NextSeq]_vars

----------------------------------------------------------------------------
(* SpecPath: the path functions applied to strings drawn from a small      *)
(* alphabet.                                                               *)

PathChars == {"/", "s"}

PathStrings == UNION {[1..k -> PathChars] : k \in 0..MaxLen}

PathConfigs ==
    {[NoConfig EXCEPT !.base_path = b, !.static_root_parent = r] :
        b \in {NoPath} \cup {Str(x) : x \in PathStrings}
                       \cup {Callable(x) : x \in PathStrings},
        r \in {NoPath} \cup {Str(x) : x \in PathStrings}}

InitPath ==
    /\ cfg \in PathConfigs
    /\ built = "yes"
    /\ fs = NoFiles
    /\ dirs = {}
    /\ s3 = NoFiles
    /\ obj = NoRecord
    /\ last = NoCall
    /\ run = <<>>
    /\ calls = 0

PathOut(r) == [NoOut EXCEPT !.exc = r.exc, !.val = r.val, !.ret = r.ret]

GetPath(filename) ==
    /\ last' = Call("_get_path", filename, FALSE, NoSrc, "none",
                    PathOut(_get_path(cfg, filename)))
    /\ UNCHANGED <<cfg, built, fs, dirs, s3, obj, run, calls>>

GetS3Path(filename) ==
    /\ last' = Call("_get_s3_path", filename, FALSE, NoSrc, "none",
                    PathOut(_get_s3_path(cfg, filename)))
    /\ UNCHANGED <<cfg, built, fs, dirs, s3, obj, run, calls>>

NextPath ==
    \/ \E f \in PathStrings : GetPath(f)
    \/ \E f \in PathStrings : GetS3Path(f)

SpecPath == InitPath /\ [][NextPath]_vars

----------------------------------------------------------------------------
(* Vocabulary of the properties.                                           *)

PublicOps == {"save", "delete", "find_by_path", "find_by_filename", "download"}

\* an attribute of the configuration that is unset
Unset(x) == x = None \/ x = ""

\* the call made network or filesystem I/O
DidNetworkIO == Range(last.io) \cap NetworkIO # {}
DidIO == last.io # <<>>

\* where a save of last.arg stores its bytes, and what is stored there
StoredLocally == Join(cfg.base_path.value, last.arg)
StoredRemotely == _get_s3_path(cfg, last.arg).ret

----------------------------------------------------------------------------
(* C1 (SpecSeq).  After a successful save(content, F, record), a           *)
(* delete(F) followed by find_by_filename(F) on the same configuration     *)
(* returns an empty result.                                                *)
C1_RoundTrip ==
    run = <<"save", "delete", "find_by_filename">> => last.found = {}

(* C2 (Spec).  Every public method picks its backend by one rule, on the   *)
(* configuration as it is at the call: local storage when the storage type *)
(* or the bucket name is unset, the remote branch otherwise; and a call    *)
(* that picked local storage raises no error about the storage type.       *)
C2_SameSelection ==
    (last.op \in PublicOps /\ last.backend # "") =>
        /\ last.backend = "local" <=>
               (Unset(cfg.storage_type) \/ Unset(cfg.bucket_name))
        /\ last.backend = "local" =>
               /\ ~DidNetworkIO
               /\ last.exc \notin {"NameError"}
               /\ last.exc = "ValueError" => last.val = "base_path"

C2_Witness ==
    /\ last.op = "download"
    /\ cfg.storage_type = "s3"
    /\ Unset(cfg.bucket_name)
    /\ last.backend = "local"
    /\ last.exc = ""

(* C3 as stated (Spec).  With the remote storage type set and the bucket   *)
(* name unset, every operation fails with a ConfigurationError before any  *)
(* network call.                                                           *)
C3_Original ==
    (last.op \in PublicOps /\ cfg.storage_type = "s3" /\ Unset(cfg.bucket_name)) =>
        last.exc = "ValueError" /\ ~DidNetworkIO

(* C3 as amended (Spec).  With the remote storage type set and the bucket  *)
(* name unset, no operation attempts a network call and none fails over    *)
(* the missing bucket: each runs against local storage, and the only       *)
(* ConfigurationError it can end in is the missing base path, raised       *)
(* before any I/O.                                                         *)
C3_LocalFallback ==
    (last.op \in PublicOps /\ cfg.storage_type = "s3" /\ Unset(cfg.bucket_name)) =>
        /\ ~DidNetworkIO
        /\ last.backend # "remote"
        /\ last.exc = "ValueError" => (last.val = "base_path" /\ ~DidIO)

C3_Witness ==
    /\ last.op = "save"
    /\ cfg.storage_type = "s3"
    /\ Unset(cfg.bucket_name)
    /\ last.exc = ""
    /\ StoredLocally \in DOMAIN fs

(* C4 (Spec).  After a save that returned, the write-back fields that are  *)
(* configured reflect the backend that stored the file: the "s3" type and  *)
(* the bucket name after a remote save, the empty string in both after a   *)
(* local save.                                                             *)
C4_WriteBackMatchesBackend ==
    (last.op = "save" /\ last.exc = "") =>
        /\ (last.backend = "remote" /\ Truthy(cfg.storage_type_field)) =>
               obj.storage_type = "s3"
        /\ (last.backend = "remote" /\ Truthy(cfg.bucket_name_field)) =>
               obj.bucket_name = cfg.bucket_name
        /\ (last.backend = "local" /\ Truthy(cfg.storage_type_field)) =>
               obj.storage_type = ""
        /\ (last.backend = "local" /\ Truthy(cfg.bucket_name_field)) =>
               obj.bucket_name = ""

(* C5 (Spec).  A storage type that is set and is not "s3" makes __init__   *)
(* and every later public call fail with a ConfigurationError carrying     *)
(* that value, with no I/O and no other kind of error.                     *)
C5_InvalidTypeRejected ==
    /\ built = "failed" => (last.exc = "ValueError" /\ last.val \notin {None, "", "s3"})
    /\ built = "yes" /\ last.op = "__init__" => cfg.storage_type \in {None, "", "s3"}
    /\ (last.op \in PublicOps /\ ~Unset(cfg.storage_type) /\ cfg.storage_type # "s3") =>
           /\ last.exc = "ValueError"
           /\ last.val = cfg.storage_type
           /\ ~DidIO

(* C6 (Spec).  In remote mode with static_root_parent or base_path unset,  *)
(* every public call fails with a ConfigurationError before any I/O.       *)
C6_ConfigErrorBeforeIO ==
    (/\ last.op \in PublicOps
     /\ cfg.storage_type = "s3"
     /\ ~Unset(cfg.bucket_name)
     /\ (~TruthyPath(cfg.static_root_parent) \/ ~TruthyPath(cfg.base_path))) =>
        last.exc = "ValueError" /\ ~DidIO

(* C7 (Spec).  A save that ends in an error leaves every attribute of the  *)
(* record as it was; the record changes only in a save that returned,      *)
(* after its store step ran to its end.                                    *)
C7_FailedSaveLeavesRecord ==
    [][/\ (last'.op = "save" /\ last'.exc # "") => obj' = obj
       /\ obj' # obj =>
            /\ last'.op = "save"
            /\ last'.exc = ""
            /\ last'.io[Len(last'.io)] \in {"set_acl", "write", "getsize"}]_vars

C7_Witness ==
    /\ last.op = "save"
    /\ last.fault = "set_acl"
    /\ last.exc # ""
    /\ Truthy(cfg.filesize_field)
    /\ obj.filesize = Len(Data)
    /\ Len(s3[StoredRemotely]) < Len(Data)

(* C8 (SpecSeq).  On a valid configuration, delete(F) of a filename F      *)
(* never raises, whether or not F is stored, and a delete(F) that follows  *)
(* a delete(F) leaves the storage as it found it.                          *)
C8_DeleteIdempotent ==
    [][(last'.op = "delete" /\ ~last'.isKey /\ calls' = calls + 1) =>
          /\ last'.exc = ""
          /\ (last.op = "delete" /\ last.arg = last'.arg /\ ~last.isKey) =>
                 (fs' = fs /\ dirs' = dirs /\ s3' = s3)]_vars

C8_Witness == run = <<"save", "delete", "delete">> /\ ~last.isKey

(* C9 (SpecPath).  The remote key is join(base_path, filename) with the    *)
(* first occurrence of static_root_parent removed and all leading          *)
(* separators stripped, so it never starts with "/".                       *)
RECURSIVE RemoveFirst(_, _)
RemoveFirst(s, old) ==
    IF s = <<>> \/ old = <<>> THEN s
    ELSE IF StartsWith(s, old) THEN Drop(s, Len(old))
    ELSE <<Head(s)>> \o RemoveFirst(Tail(s), old)

RECURSIVE StripLeading(_)
StripLeading(s) == IF StartsWith(s, <<"/">>) THEN StripLeading(Tail(s)) ELSE s

C9_KeyDerivation ==
    (last.op = "_get_s3_path" /\ last.exc = "") =>
        /\ last.ret = StripLeading(RemoveFirst(Join(cfg.base_path.value, last.arg),
                                               cfg.static_root_parent.value))
        /\ ~StartsWith(last.ret, <<"/">>)

(* C10 (Spec).  Wherever the source is positioned, a save that returned    *)
(* stored the whole content of the source from byte 0, and the filesize    *)
(* field, if configured, is the length of that whole content.              *)
C10_WholeSourceStored ==
    (last.op = "save" /\ last.exc = "") =>
        /\ last.backend = "local" => fs[StoredLocally] = last.data
        /\ last.backend = "remote" => s3[StoredRemotely] = last.data
        /\ Truthy(cfg.filesize_field) => obj.filesize = Len(last.data)

====
